---- MODULE Spec2Model ----
(***************************************************************************)
(* rudua: the directory indexer (utility.rs: inspect_dir), the tree model  *)
(* (utility.rs: Node) and the key-event loop (application.rs: App::run).   *)
(*                                                                         *)
(* A path is the sequence of its normal components ("/" is <<>>), a        *)
(* component is a sequence of character codes (a = 1 .. z = 26).           *)
(***************************************************************************)
EXTENDS Integers, Sequences, FiniteSets, TLC

\* ------------------------------------------------------------------ bounds
\* entries a scanned top-level directory lists (error items included)
MaxEntries == 2
\* entries a directory one level down lists
MaxSub == 1
\* entries below the root of a tree that is browsed, marked and deleted from
MaxNodes == 3
\* cap on `selected` once the release build's wrapped subtraction lets it grow
MaxSelected == 2

\* ------------------------------------------------------------------- paths
De == <<4, 5>>
Dev == <<4, 5, 22>>
Proc == <<16, 18, 15, 3>>
Mnt == <<13, 14, 20>>
R == <<18>>

\* file names a directory may list: "de" is a string prefix of "dev"
Names == {De, Dev}

\* const SPECIAL_PATHS: [&str; 3] = ["/dev", "/proc", "/mnt"]
SPECIAL_PATHS == << <<Dev>>, <<Proc>>, <<Mnt>> >>

\* the paths main may hand to inspect_dir: "/" and "/r"
Roots == {<<>>, <<R>>}

\* Path::starts_with: whole components, never a partial component
starts_with(path, base) ==
  /\ Len(base) <= Len(path)
  /\ \A i \in 1..Len(base) : path[i] = base[i]

\* PathBuf::join of a directory and a file name (DirEntry::path)
join(path, fname) == Append(path, fname)

\* Path::ancestors().nth(1): the parent, none (<<>>) for the root directory
ancestors_nth1(path) ==
  IF Len(path) = 0 THEN <<>> ELSE << SubSeq(path, 1, Len(path) - 1) >>

\* Ord for a component: bytewise lexicographic
RECURSIVE cmp_name(_, _)
cmp_name(a, b) ==
  IF a = <<>> /\ b = <<>> THEN "Equal"
  ELSE IF a = <<>> THEN "Less"
  ELSE IF b = <<>> THEN "Greater"
  ELSE IF Head(a) < Head(b) THEN "Less"
  ELSE IF Head(a) > Head(b) THEN "Greater"
  ELSE cmp_name(Tail(a), Tail(b))

\* Ord for PathBuf: lexicographic over the components
RECURSIVE cmp_path(_, _)
cmp_path(a, b) ==
  IF a = <<>> /\ b = <<>> THEN "Equal"
  ELSE IF a = <<>> THEN "Less"
  ELSE IF b = <<>> THEN "Greater"
  ELSE IF cmp_name(Head(a), Head(b)) # "Equal" THEN cmp_name(Head(a), Head(b))
  ELSE cmp_path(Tail(a), Tail(b))

\* -------------------------------------------------------------------- Node
\* Node::new
Node_new(size, name, is_directory) ==
  [size |-> size, name |-> name, children |-> <<>>,
   is_directory |-> is_directory, is_marked |-> FALSE]

\* a comparator that forgets the directories-first rule
cmp_children_by_name_only(a, b) == cmp_path(a.name, b.name)

\* the closure given to sort_by
cmp_children(a, b) ==
  IF a.is_directory /\ b.is_directory THEN cmp_path(a.name, b.name)
  ELSE IF a.is_directory THEN "Less"
  ELSE IF b.is_directory THEN "Greater"
  ELSE cmp_path(a.name, b.name)

\* one insertion of a stable sort: x goes after every element not greater
RECURSIVE insert_sorted(_, _)
insert_sorted(s, x) ==
  IF s = <<>> THEN <<x>>
  ELSE IF cmp_children(s[Len(s)], x) = "Greater"
       THEN Append(insert_sorted(SubSeq(s, 1, Len(s) - 1), x), s[Len(s)])
       ELSE Append(s, x)

\* Vec::sort_by (stable)
RECURSIVE sort_by(_)
sort_by(s) ==
  IF s = <<>> THEN <<>>
  ELSE insert_sorted(sort_by(SubSeq(s, 1, Len(s) - 1)), s[Len(s)])

\* ------------------------------------------------- what the scan reads
\* One item the read_dir iterator yields, with what the metadata calls say:
\*   kind "ioerr"   the iterator yields Err
\*   kind "nometa"  DirEntry::metadata fails
\*   kind "file" / "dir" / "other"   what the metadata says it is
\*   fail (a directory) which call of inspect_dir on it fails, if any
Entry(fname, kind, len, fail, entries) ==
  [fname |-> fname, kind |-> kind, len |-> len, fail |-> fail, entries |-> entries]

IoErr == Entry(<<>>, "ioerr", 0, "none", <<>>)

\* every listing of the given shape: <<>> stands for an Err of the iterator,
\* a name for an entry of that name
RECURSIVE ListingsOfShape(_, _, _)
ListingsOfShape(shape, errs, named) ==
  IF shape = <<>> THEN {<<>>}
  ELSE LET heads == IF Head(shape) = <<>> THEN errs
                    ELSE {x \in named : x.fname = Head(shape)}
       IN {<<x>> \o rest : x \in heads, rest \in ListingsOfShape(Tail(shape), errs, named)}

Shapes(n, slots) ==
  {s \in UNION {[1..k -> slots] : k \in 0..n} :
     \A i, j \in 1..Len(s) : (i # j /\ s[i] # <<>>) => s[i] # s[j]}

\* the listings of at most n items: Err items (when errs is not empty) and
\* named items with distinct file names, in any order
Listings(errs, named, n) ==
  UNION {ListingsOfShape(s, errs, named) :
           s \in Shapes(n, Names \cup (IF errs = {} THEN {} ELSE {<<>>}))}

\* byte lengths the metadata reports
FileLens == {1, 2}
DirLens == {0, 4}

\* a directory one level down, as the indexer may meet it
IndexSubListings ==
  Listings({IoErr},
           {Entry(n, "file", 1, "none", <<>>) : n \in Names}
             \cup {Entry(n, "dir", 4, f, <<>>) : n \in Names, f \in {"none", "read_dir"}},
           MaxSub)

\* the top-level directory, as the indexer may meet it
IndexTopListings ==
  Listings({IoErr},
           {Entry(n, "file", l, "none", <<>>) : n \in Names, l \in FileLens}
             \cup {Entry(n, k, 0, "none", <<>>) : n \in Names, k \in {"nometa", "other"}}
             \cup {Entry(n, "dir", 4, f, <<>>) : n \in Names, f \in {"metadata", "read_dir"}}
             \cup {Entry(n, "dir", 4, "none", es) : n \in Names, es \in IndexSubListings},
           MaxEntries)

\* what inspect_dir may be called on: a readable directory, a directory whose
\* metadata or listing cannot be read, a plain file
IndexDisks ==
  {Entry(<<>>, "dir", l, "none", es) : l \in DirLens, es \in IndexTopListings}
    \cup {Entry(<<>>, "dir", 4, f, <<>>) : f \in {"metadata", "read_dir"}}
    \cup {Entry(<<>>, "file", 1, "none", <<>>)}

\* the entries below e
RECURSIVE CountEntries(_)
RECURSIVE CountFrom(_, _)
CountFrom(entries, i) ==
  IF i > Len(entries) THEN 0
  ELSE 1 + CountEntries(entries[i]) + CountFrom(entries, i + 1)

CountEntries(e) == CountFrom(e.entries, 1)

\* directories every entry of which can be read, of at most MaxNodes entries
TreeSubListings ==
  Listings({},
           {Entry(n, "file", 1, "none", <<>>) : n \in Names}
             \cup {Entry(n, "dir", 4, "none", <<>>) : n \in Names},
           Cardinality(Names))

TreeDisks ==
  {d \in {Entry(<<>>, "dir", 4, "none", es) :
            es \in Listings({},
                            {Entry(n, "file", 2, "none", <<>>) : n \in Names}
                              \cup {Entry(n, "dir", 4, "none", sub) :
                                      n \in Names, sub \in TreeSubListings},
                            Cardinality(Names))} :
     CountEntries(d) <= MaxNodes}

\* is_special: the loop over SPECIAL_PATHS
is_special(path) ==
  \E i \in 1..Len(SPECIAL_PATHS) : starts_with(path, SPECIAL_PATHS[i])

\* ------------------------------------------------------------ inspect_dir
Hook(hook, path, bytes) == [hook |-> hook, path |-> path, bytes |-> bytes]

Failed == [ok |-> FALSE, node |-> Node_new(0, <<>>, FALSE), calls |-> <<>>]

\* Err(why) of the iterator: failed_entry, then `continue`
on_entry_err(acc, path) ==
  [acc EXCEPT !.calls = Append(@, Hook("failed_entry", path, 0))]

\* Err(why) of entry.metadata(): failed_meta, then `continue`
on_meta_err(acc, path, e) ==
  [acc EXCEPT !.calls = Append(@, Hook("failed_meta", join(path, e.fname), 0))]

\* a regular file whose length is not added to the directory
on_file_size_forgotten(acc, path, e) ==
  [acc EXCEPT
     !.node.children = Append(@, Node_new(e.len, join(path, e.fname), FALSE))]

\* meta.is_file(): the length is added, a leaf is pushed
on_file(acc, path, e) ==
  [acc EXCEPT
     !.node.size = @ + e.len,
     !.node.children = Append(@, Node_new(e.len, join(path, e.fname), FALSE))]

\* a failed subtree that is pushed as an empty directory all the same
on_dir_err_pushed(acc, path, e) ==
  [acc EXCEPT
     !.calls = Append(@, Hook("failed_inspections", join(path, e.fname), 0)),
     !.node.children = Append(@, Node_new(e.len, join(path, e.fname), TRUE))]

\* Err(why) of the recursive call: failed_inspections, then `continue`
on_dir_err(acc, path, e) ==
  [acc EXCEPT
     !.calls = Append(@, Hook("failed_inspections", join(path, e.fname), 0))]

\* Ok(child) of the recursive call
on_dir_ok(acc, r) ==
  [acc EXCEPT
     !.calls = (@ \o r.calls) \o << Hook("indexed_bytes", r.node.name, r.node.size) >>,
     !.node.size = @ + r.node.size,
     !.node.children = Append(@, r.node)]

RECURSIVE inspect_dir(_, _)

\* one turn of `for entry in read_dir(path)?`
on_entry(acc, path, e) ==
  IF e.kind = "ioerr" THEN on_entry_err(acc, path)
  ELSE IF e.kind = "nometa" THEN on_meta_err(acc, path, e)
  ELSE IF e.kind = "file" THEN on_file(acc, path, e)
  ELSE IF e.kind = "dir" THEN
    LET r == inspect_dir(join(path, e.fname), e) IN
    IF r.ok THEN on_dir_ok(acc, r) ELSE on_dir_err(acc, path, e)
  ELSE acc

\* a loop that leaves the listing at the first Err the iterator yields
RECURSIVE for_entries_break(_, _, _, _)
for_entries_break(acc, path, entries, i) ==
  IF i > Len(entries) THEN acc
  ELSE IF entries[i].kind = "ioerr" THEN on_entry_err(acc, path)
  ELSE for_entries_break(on_entry(acc, path, entries[i]), path, entries, i + 1)

\* the whole `for entry in read_dir(path)?` loop
RECURSIVE for_entries(_, _, _, _)
for_entries(acc, path, entries, i) ==
  IF i > Len(entries) THEN acc
  ELSE for_entries(on_entry(acc, path, entries[i]), path, entries, i + 1)

inspect_dir(path, e) ==
  IF is_special(path) THEN
    [ok |-> TRUE, node |-> Node_new(0, path, TRUE), calls |-> <<>>]
  ELSE IF e.fail = "metadata" THEN Failed
  ELSE IF e.fail = "read_dir" \/ e.kind # "dir" THEN Failed
  ELSE
    LET acc0 == [node |-> Node_new(e.len, path, e.kind = "dir"), calls |-> <<>>]
        acc == for_entries(acc0, path, e.entries, 1)
    IN [ok |-> TRUE,
        node |-> [acc.node EXCEPT !.children = sort_by(@)],
        calls |-> acc.calls]

\* ------------------------------------------------------ find_node, mark
\* Path::starts_with mistaken for a prefix test on the path's text
\* ("/r/dev" begins with "/r/de")
RECURSIVE text_of(_)
text_of(path) ==
  IF path = <<>> THEN <<>> ELSE (<<0>> \o Head(path)) \o text_of(Tail(path))

starts_with_text(path, base) ==
  /\ Len(text_of(base)) <= Len(text_of(path))
  /\ SubSeq(text_of(path), 1, Len(text_of(base))) = text_of(base)

\* the test each child is put to in find_node and find_node_mut
child_is_ancestor(path, child_path) == starts_with(path, child_path)

\* Node::find_node: none is <<>>, Some(node) is <<node>>
RECURSIVE find_node(_, _)
RECURSIVE find_node_children(_, _, _)
find_node_children(children, i, path) ==
  IF i > Len(children) THEN <<>>
  ELSE IF children[i].name = path THEN << children[i] >>
  ELSE IF child_is_ancestor(path, children[i].name) THEN find_node(children[i], path)
  ELSE find_node_children(children, i + 1, path)

find_node(self, path) ==
  IF self.name = path THEN << self >> ELSE find_node_children(self.children, 1, path)

\* Node::find_node_mut: the place of the node the &mut refers to, as the
\* child indices that lead to it from self; none is <<>>, Some(place) <<place>>
RECURSIVE find_node_mut(_, _)
RECURSIVE find_node_mut_children(_, _, _)
find_node_mut_children(children, i, path) ==
  IF i > Len(children) THEN <<>>
  ELSE IF children[i].name = path THEN << <<i>> >>
  ELSE IF child_is_ancestor(path, children[i].name) THEN
    LET r == find_node_mut(children[i], path) IN
    IF r = <<>> THEN <<>> ELSE << <<i>> \o r[1] >>
  ELSE find_node_mut_children(children, i + 1, path)

find_node_mut(self, path) ==
  IF self.name = path THEN << <<>> >>
  ELSE find_node_mut_children(self.children, 1, path)

\* the node a place refers to
RECURSIVE node_at(_, _)
node_at(self, place) ==
  IF place = <<>> THEN self ELSE node_at(self.children[Head(place)], Tail(place))

\* a mark that does not reach the children
mark_self_only(self, v) == [self EXCEPT !.is_marked = v]

\* Node::mark
RECURSIVE mark(_, _)
mark(self, v) ==
  [self EXCEPT !.is_marked = v,
               !.children = [i \in 1..Len(self.children) |-> mark(self.children[i], v)]]

\* the tree after mark(v) on the node at place
RECURSIVE mark_at(_, _, _)
mark_at(self, place, v) ==
  IF place = <<>> THEN mark(self, v)
  ELSE [self EXCEPT !.children[Head(place)] = mark_at(@, Tail(place), v)]

\* ---------------------------------------------------------- delete_marked
\* st is the filesystem with the removals attempted and reported so far;
\* fail is the set of paths whose removal the filesystem refuses
Path_is_dir(fs, path) == [path |-> path, kind |-> "dir"] \in fs

Path_exists(fs, path) == \E f \in fs : f.path = path

\* std::fs::remove_dir_all: the directory and everything under it
remove_dir_all(st, path, fail) ==
  LET st1 == [st EXCEPT !.attempted = Append(@, [path |-> path, call |-> "remove_dir_all"])]
  IN IF path \in fail
     THEN [st1 EXCEPT !.reported = Append(@, path)]
     ELSE [st1 EXCEPT !.files = {f \in @ : ~starts_with(f.path, path)}]

\* std::fs::remove_file: fails on a path that does not exist
remove_file(st, path, fail) ==
  LET st1 == [st EXCEPT !.attempted = Append(@, [path |-> path, call |-> "remove_file"])]
  IN IF path \in fail \/ ~Path_exists(st.files, path)
     THEN [st1 EXCEPT !.reported = Append(@, path)]
     ELSE [st1 EXCEPT !.files = {f \in @ : f.path # path}]

\* the body of `if child.is_marked`
remove_child(st, child, fail) ==
  IF Path_is_dir(st.files, child.name)
  THEN remove_dir_all(st, child.name, fail)
  ELSE remove_file(st, child.name, fail)

RECURSIVE delete_marked(_, _, _)

\* a pass that a failed removal ends
RECURSIVE delete_children_until_error(_, _, _, _)
delete_children_until_error(children, i, st, fail) ==
  IF i > Len(children) \/ st.reported # <<>> THEN st
  ELSE delete_children_until_error(children, i + 1,
         IF children[i].is_marked THEN remove_child(st, children[i], fail)
         ELSE delete_marked(children[i], st, fail),
         fail)

\* `for child in self.children.iter()`
RECURSIVE delete_children(_, _, _, _)
delete_children(children, i, st, fail) ==
  IF i > Len(children) THEN st
  ELSE delete_children(children, i + 1,
         IF children[i].is_marked THEN remove_child(st, children[i], fail)
         ELSE delete_marked(children[i], st, fail),
         fail)

\* Node::delete_marked
delete_marked(self, st, fail) == delete_children(self.children, 1, st, fail)

\* the filesystem entries under (and at) path: [path, kind] of each
RECURSIVE FilesOf(_, _)
FilesOf(path, e) ==
  {[path |-> path, kind |-> IF e.kind \in {"file", "dir"} THEN e.kind ELSE "other"]}
    \cup UNION {FilesOf(join(path, e.entries[i].fname), e.entries[i]) :
                  i \in {j \in 1..Len(e.entries) : e.entries[j].kind # "ioerr"}}

\* ------------------------------------------------------------------- state
VARIABLES
  dir,              \* main: the path to scan
  disk,             \* what the metadata and read_dir calls answer under dir
  files,            \* the filesystem: the entries that exist, [path, kind]
  pc,               \* "main", "failed", "indexed", "deleted", "run", "exited", "panicked"
  listing,          \* the tree inspect_dir returned (App::listing)
  hooks,            \* the Callbacks invocations of the scan, in order
  mode,             \* App::mode
  current,          \* App::current
  selected,         \* App::selected
  number_of_files,  \* App::number_of_files
  last,             \* the operation just performed: [op, path, arg]
  found,            \* what find_node / find_node_mut returned
  attempted,        \* the removals the last delete_marked attempted, in order
  reported,         \* the removals it reported as failed (eprintln)
  delete_calls      \* how many times delete_marked was called on the root

vars == <<dir, disk, files, pc, listing, hooks, mode, current, selected,
          number_of_files, last, found, attempted, reported, delete_calls>>

Op(op, path, arg, fail) == [op |-> op, path |-> path, arg |-> arg, fail |-> fail]

InitWith(disks) ==
  /\ dir \in Roots
  /\ disk \in disks
  /\ files = FilesOf(dir, disk)
  /\ pc = "main"
  /\ listing = Node_new(0, <<>>, FALSE)
  /\ hooks = <<>>
  /\ mode = "Normal"
  /\ current = <<>>
  /\ selected = 0
  /\ number_of_files = 0
  /\ last = Op("none", <<>>, FALSE, {})
  /\ found = [node |-> <<>>, place |-> <<>>]
  /\ attempted = <<>>
  /\ reported = <<>>
  /\ delete_calls = 0

InitIndex == InitWith(IndexDisks)

\* main: inspect_dir(&dir, &mut callbacks) at the top level
InspectDir ==
  /\ pc = "main"
  /\ LET r == inspect_dir(dir, disk) IN
       /\ pc' = IF r.ok THEN "indexed" ELSE "failed"
       /\ listing' = r.node
       /\ hooks' = r.calls
  /\ last' = Op("inspect_dir", dir, FALSE, {})
  /\ UNCHANGED <<dir, disk, files, mode, current, selected, number_of_files,
                 found, attempted, reported, delete_calls>>

NextIndex == InspectDir

SpecIndex == InitIndex /\ [][NextIndex]_vars

\* ------------------------------------------------- the tree model's calls
\* the nodes of a tree
RECURSIVE Nodes(_)
Nodes(t) == {t} \cup UNION {Nodes(t.children[i]) : i \in 1..Len(t.children)}

\* the paths a caller may ask for: every node's path, each extended by one
\* file name (a missing sibling, a path below a file), and the root's parent
QueryPaths(t) ==
  {n.name : n \in Nodes(t)}
    \cup {join(n.name, x) : n \in Nodes(t), x \in Names}
    \cup {SubSeq(t.name, 1, Len(t.name) - 1) : k \in {1}}

InitTree == InitWith(TreeDisks)

\* find_node(path) and find_node_mut(path) on the root
FindNode(path) ==
  /\ pc = "indexed"
  /\ found' = [node |-> find_node(listing, path), place |-> find_node_mut(listing, path)]
  /\ last' = Op("find_node", path, FALSE, {})
  /\ UNCHANGED <<dir, disk, files, pc, listing, hooks, mode, current, selected,
                 number_of_files, attempted, reported, delete_calls>>

\* mark(v) on the node of the given path
Mark(path, v) ==
  /\ pc = "indexed"
  /\ LET r == find_node_mut(listing, path) IN
       /\ r # <<>>
       /\ listing' = mark_at(listing, r[1], v)
       /\ found' = [node |-> <<>>, place |-> r]
  /\ last' = Op("mark", path, v, {})
  /\ UNCHANGED <<dir, disk, files, pc, hooks, mode, current, selected,
                 number_of_files, attempted, reported, delete_calls>>

\* delete_marked() on the root, the filesystem refusing the removals in fail
DeleteMarked(fail) ==
  /\ pc = "indexed"
  /\ LET st == delete_marked(listing,
                 [files |-> files, attempted |-> <<>>, reported |-> <<>>], fail) IN
       /\ files' = st.files
       /\ attempted' = st.attempted
       /\ reported' = st.reported
  /\ pc' = "deleted"
  /\ delete_calls' = delete_calls + 1
  /\ last' = Op("delete_marked", listing.name, FALSE, fail)
  /\ found' = [node |-> <<>>, place |-> <<>>]
  /\ UNCHANGED <<dir, disk, listing, hooks, mode, current, selected, number_of_files>>

NextFind ==
  \/ InspectDir
  \/ \E path \in QueryPaths(listing) : FindNode(path)

SpecFind == InitTree /\ [][NextFind]_vars

Next ==
  \/ InspectDir
  \/ \E n \in Nodes(listing), v \in BOOLEAN : Mark(n.name, v)
  \/ \E fail \in SUBSET {n.name : n \in {m \in Nodes(listing) : m.is_marked}} :
       DeleteMarked(fail)

Spec == InitTree /\ [][Next]_vars

\* --------------------------------------------------------------- App::run
\* usize arithmetic wraps modulo 2^64 when overflow checks are off; the
\* modulus here is 2^30, which like 2^64 exceeds every index of the model
usize_modulus == 2^30

wrapping_sub(a, b) == (a - b + usize_modulus) % usize_modulus

\* the removals a pass over the tree may be refused
MarkedPaths == {n.name : n \in {m \in Nodes(listing) : m.is_marked}}

\* main: inspect_dir(..).expect("Failed inspection"), then App::new and run
Main ==
  /\ pc = "main"
  /\ LET r == inspect_dir(dir, disk) IN
       /\ pc' = IF r.ok THEN "run" ELSE "failed"
       /\ listing' = r.node
       /\ hooks' = r.calls
       /\ current' = r.node.name
       /\ number_of_files' = Len(r.node.children)
  /\ mode' = "Normal"
  /\ selected' = 0
  /\ last' = Op("main", dir, FALSE, {})
  /\ UNCHANGED <<dir, disk, files, found, attempted, reported, delete_calls>>

\* one turn of the loop in Normal mode has drawn the listing of `current`
\* (ui: find_node(&self.current).expect("Invalid path")) and read a key
Normal == pc = "run" /\ mode = "Normal"

AskRemove == pc = "run" /\ mode = "AskRemove"

Panic(key) ==
  /\ pc' = "panicked"
  /\ last' = Op(key, <<>>, FALSE, {})
  /\ UNCHANGED <<dir, disk, files, listing, hooks, mode, current, selected,
                 number_of_files, found, attempted, reported, delete_calls>>

\* terminal.draw or event::read returns Err: `?` leaves run
IoFailure ==
  /\ pc = "run"
  /\ pc' = "exited"
  /\ last' = Op("io_error", <<>>, FALSE, {})
  /\ UNCHANGED <<dir, disk, files, listing, hooks, mode, current, selected,
                 number_of_files, found, attempted, reported, delete_calls>>

\* KeyCode::Char('q') | KeyCode::Esc
KeyQuit ==
  /\ Normal
  /\ pc' = "exited"
  /\ last' = Op("Char_q", <<>>, FALSE, {})
  /\ UNCHANGED <<dir, disk, files, listing, hooks, mode, current, selected,
                 number_of_files, found, attempted, reported, delete_calls>>

\* KeyCode::Down: self.selected += (self.selected < self.number_of_files - 1)
\* with overflow checks the subtraction panics at 0, without them it wraps
KeyDown ==
  /\ Normal
  /\ \/ /\ number_of_files = 0
        /\ Panic("Down")
     \/ /\ number_of_files = 0 => selected < MaxSelected
        /\ selected' = selected
             + (IF selected < wrapping_sub(number_of_files, 1) THEN 1 ELSE 0)
        /\ last' = Op("Down", <<>>, FALSE, {})
        /\ UNCHANGED <<dir, disk, files, pc, listing, hooks, mode, current,
                       number_of_files, found, attempted, reported, delete_calls>>

\* KeyCode::Up: self.selected -= (self.selected > 0)
KeyUp ==
  /\ Normal
  /\ selected' = selected - (IF selected > 0 THEN 1 ELSE 0)
  /\ last' = Op("Up", <<>>, FALSE, {})
  /\ UNCHANGED <<dir, disk, files, pc, listing, hooks, mode, current,
                 number_of_files, found, attempted, reported, delete_calls>>

\* KeyCode::Enter
KeyEnter ==
  /\ Normal
  /\ LET cur == find_node(listing, current) IN
       IF cur = <<>> \/ selected >= Len(cur[1].children) THEN Panic("Enter")
       ELSE LET child == cur[1].children[selected + 1] IN
         /\ last' = Op("Enter", <<>>, FALSE, {})
         /\ IF ~child.is_directory
            THEN UNCHANGED <<current, selected, number_of_files>>
            ELSE /\ current' = child.name
                 /\ selected' = 0
                 /\ number_of_files' = Len(child.children)
         /\ UNCHANGED <<dir, disk, files, pc, listing, hooks, mode, found,
                        attempted, reported, delete_calls>>

\* KeyCode::Char(' ')
KeySpace ==
  /\ Normal
  /\ LET cur == find_node_mut(listing, current) IN
       IF cur = <<>> \/ selected >= Len(node_at(listing, cur[1]).children)
       THEN Panic("Char_space")
       ELSE LET place == Append(cur[1], selected + 1) IN
         /\ listing' = mark_at(listing, place, ~node_at(listing, place).is_marked)
         /\ last' = Op("Char_space", <<>>, FALSE, {})
         /\ UNCHANGED <<dir, disk, files, pc, hooks, mode, current, selected,
                        number_of_files, found, attempted, reported, delete_calls>>

\* KeyCode::Delete
KeyDelete ==
  /\ Normal
  /\ mode' = "AskRemove"
  /\ last' = Op("Delete", <<>>, FALSE, {})
  /\ UNCHANGED <<dir, disk, files, pc, listing, hooks, current, selected,
                 number_of_files, found, attempted, reported, delete_calls>>

\* KeyCode::Backspace
KeyBackspace ==
  /\ Normal
  /\ last' = Op("Backspace", <<>>, FALSE, {})
  /\ LET parent == ancestors_nth1(current)
         node == IF parent = <<>> THEN <<>> ELSE find_node(listing, parent[1])
     IN IF node = <<>>
        THEN UNCHANGED <<current, selected, number_of_files>>
        ELSE /\ current' = node[1].name
             /\ selected' = 0
             /\ number_of_files' = Len(node[1].children)
  /\ UNCHANGED <<dir, disk, files, pc, listing, hooks, mode, found,
                 attempted, reported, delete_calls>>

\* `_ => {}` in either mode, and every event that is not a key
KeyOther ==
  /\ pc = "run"
  /\ UNCHANGED vars

\* a 'y' after which the loop goes on
KeyY_loop_goes_on ==
  /\ AskRemove
  /\ \E fail \in SUBSET MarkedPaths :
       LET st == delete_marked(listing,
                   [files |-> files, attempted |-> <<>>, reported |-> <<>>], fail) IN
         /\ files' = st.files
         /\ attempted' = st.attempted
         /\ reported' = st.reported
         /\ last' = Op("Char_y", <<>>, FALSE, fail)
  /\ delete_calls' = delete_calls + 1
  /\ UNCHANGED <<dir, disk, pc, listing, hooks, mode, current, selected,
                 number_of_files, found>>

\* KeyCode::Char('y') in AskRemove: delete_marked, then return Ok(())
KeyY ==
  /\ AskRemove
  /\ \E fail \in SUBSET MarkedPaths :
       LET st == delete_marked(listing,
                   [files |-> files, attempted |-> <<>>, reported |-> <<>>], fail) IN
         /\ files' = st.files
         /\ attempted' = st.attempted
         /\ reported' = st.reported
         /\ last' = Op("Char_y", <<>>, FALSE, fail)
  /\ delete_calls' = delete_calls + 1
  /\ pc' = "exited"
  /\ UNCHANGED <<dir, disk, listing, hooks, mode, current, selected,
                 number_of_files, found>>

\* KeyCode::Char('n') in AskRemove
KeyN ==
  /\ AskRemove
  /\ mode' = "Normal"
  /\ last' = Op("Char_n", <<>>, FALSE, {})
  /\ UNCHANGED <<dir, disk, files, pc, listing, hooks, current, selected,
                 number_of_files, found, attempted, reported, delete_calls>>

NextApp ==
  \/ Main
  \/ IoFailure
  \/ KeyQuit
  \/ KeyDown
  \/ KeyUp
  \/ KeyEnter
  \/ KeySpace
  \/ KeyDelete
  \/ KeyBackspace
  \/ KeyOther
  \/ KeyY
  \/ KeyN

SpecApp == InitTree /\ [][NextApp]_vars

\* ------------------------------------------------------------- properties
IsPrefixPath(base, path) ==
  Len(base) <= Len(path) /\ SubSeq(path, 1, Len(base)) = base

RECURSIVE SumSizes(_)
SumSizes(children) ==
  IF children = <<>> THEN 0 ELSE Head(children).size + SumSizes(Tail(children))

RECURSIVE Count(_, _)
Count(s, x) ==
  IF s = <<>> THEN 0 ELSE (IF Head(s) = x THEN 1 ELSE 0) + Count(Tail(s), x)

\* what the scan was answered for the entry at path (a path at or below dir)
RECURSIVE EntryAt(_, _, _)
EntryAt(e, base, path) ==
  IF base = path THEN e
  ELSE LET i == CHOOSE j \in 1..Len(e.entries) :
                  /\ e.entries[j].kind # "ioerr"
                  /\ IsPrefixPath(join(base, e.entries[j].fname), path)
       IN EntryAt(e.entries[i], join(base, e.entries[i].fname), path)

\* an entry the scan can index: a regular file, a directory that can be read
\* or that is skipped as a special path
Indexable(base, e) ==
  \/ e.kind = "file"
  \/ e.kind = "dir" /\ (e.fail = "none" \/ is_special(join(base, e.fname)))

IndexablePaths(base, entries, lo, hi) ==
  {join(base, entries[j].fname) :
     j \in {k \in lo..hi : Indexable(base, entries[k])}}

ChildPaths(n) == {n.children[i].name : i \in 1..Len(n.children)}

\* the directories of the returned tree that were listed
ListedDirs == {n \in Nodes(listing) : n.is_directory /\ ~is_special(n.name)}

C6_SubtreeFailureAbsorbed ==
  /\ pc = "failed" => (disk.kind # "dir" \/ disk.fail # "none")
  /\ (pc # "main" /\ disk.kind = "dir" /\ disk.fail = "none") => pc = "indexed"
  /\ pc = "indexed" =>
       \A n \in ListedDirs :
         LET e == EntryAt(disk, dir, n.name) IN
         /\ ChildPaths(n) = IndexablePaths(n.name, e.entries, 1, Len(e.entries))
         /\ \A i \in 1..Len(e.entries) :
              LET c == e.entries[i]
                  cp == join(n.name, c.fname)
              IN (c.kind = "dir" /\ ~Indexable(n.name, c)) =>
                   /\ Count(hooks, Hook("failed_inspections", cp, 0)) = 1
                   /\ \A m \in Nodes(listing) : ~IsPrefixPath(cp, m.name)
                   /\ n.size = e.len + SumSizes(n.children)

\* a directory one level down is returned although a directory inside it
\* failed, next to a sibling that was indexed
C6_Witness ==
  /\ pc = "indexed"
  /\ \E n \in ListedDirs :
       /\ n.name # dir
       /\ \E i \in 1..Len(EntryAt(disk, dir, n.name).entries) :
            /\ EntryAt(disk, dir, n.name).entries[i].kind = "dir"
            /\ EntryAt(disk, dir, n.name).entries[i].fail # "none"
  /\ Len(listing.children) >= 2

\* the first Err the iterator yielded in a listing, 0 when there is none
FirstErr(entries) ==
  IF \E i \in 1..Len(entries) : entries[i].kind = "ioerr"
  THEN CHOOSE i \in 1..Len(entries) :
         /\ entries[i].kind = "ioerr"
         /\ \A j \in 1..(i - 1) : entries[j].kind # "ioerr"
  ELSE 0

RECURSIVE Skeleton(_)
Skeleton(t) ==
  [t EXCEPT !.is_marked = FALSE,
            !.children = [i \in 1..Len(t.children) |-> Skeleton(t.children[i])]]

NodeOf(t, path) == CHOOSE n \in Nodes(t) : n.name = path

\* directories first, and ascending by path among the directories and among
\* the files
SortedChildren(c) ==
  \A i, j \in 1..Len(c) :
    i < j =>
      /\ c[i].is_directory \/ ~c[j].is_directory
      /\ c[i].is_directory = c[j].is_directory => cmp_path(c[i].name, c[j].name) = "Less"

\* the marked nodes below the root no ancestor of which below the root is marked
TopMarked(t) ==
  {n \in Nodes(t) :
     /\ n.name # t.name
     /\ n.is_marked
     /\ \A a \in Nodes(t) :
          (a.name # t.name /\ a.name # n.name /\ IsPrefixPath(a.name, n.name))
            => ~a.is_marked}

Range(s) == {s[i] : i \in 1..Len(s)}

\* the filesystem entries at or below a marked node other than the root
UnderMarked(t, fs) ==
  {f \in fs : \E n \in Nodes(t) :
                n.name # t.name /\ n.is_marked /\ IsPrefixPath(n.name, f.path)}

\* C1 as claimed: with every removal succeeding, delete_marked removes
\* exactly the entries of the marked nodes below the root (a marked directory
\* with its subtree) and leaves the entry of every unmarked node untouched.
C1_DeleteLeavesUnmarkedUntouched ==
  (pc = "deleted" /\ reported = <<>>) =>
    /\ files = FilesOf(dir, disk) \ UnderMarked(listing, FilesOf(dir, disk))
    /\ \A n \in Nodes(listing) : ~n.is_marked => Path_exists(files, n.name)

\* What delete_marked does instead: with every removal succeeding it removes
\* exactly the filesystem entries at or below the marked nodes below the
\* root, so that an unmarked node keeps its entry exactly when no directory
\* above it below the root is marked.
DeleteRemovesMarkedSubtrees ==
  (pc = "deleted" /\ reported = <<>>) =>
    /\ files = FilesOf(dir, disk) \ UnderMarked(listing, FilesOf(dir, disk))
    /\ \A n \in Nodes(listing) :
         ~n.is_marked =>
           (Path_exists(files, n.name)
              <=> \A a \in Nodes(listing) :
                    (a.name # listing.name /\ IsPrefixPath(a.name, n.name)) => ~a.is_marked)

\* C3: find_node and find_node_mut return the node whose path equals the
\* path asked for whenever the tree has one (it has at most one), and none
\* for every other path.
C3_FindNodeFindsExactlyTheNodes ==
  last.op = "find_node" =>
    LET m == {n \in Nodes(listing) : n.name = last.path} IN
    IF m = {}
    THEN found.node = <<>> /\ found.place = <<>>
    ELSE /\ Cardinality(m) = 1
         /\ found.node = << NodeOf(listing, last.path) >>
         /\ found.place # <<>>
         /\ node_at(listing, found.place[1]) = NodeOf(listing, last.path)

\* the node found lies two levels down in the directory "dev", whose sibling
\* "de" comes first among the root's children
C3_Witness ==
  /\ last.op = "find_node"
  /\ Len(last.path) = Len(dir) + 2
  /\ last.path[Len(dir) + 1] = Dev
  /\ found.node # <<>>
  /\ Len(listing.children) = 2
  /\ listing.children[1].name = join(dir, De)

\* C4: mark(v) on a node leaves that node and every node below it with
\* is_marked = v, whatever their marks were, changes the mark of no other
\* node, and changes nothing else of the tree.
C4_MarkSetsExactlyTheSubtree ==
  [][last'.op = "mark" =>
       /\ Skeleton(listing') = Skeleton(listing)
       /\ \A n \in Nodes(listing') :
            n.is_marked = (IF IsPrefixPath(last'.path, n.name) THEN last'.arg
                           ELSE NodeOf(listing, n.name).is_marked)]_vars

\* a directory was unmarked whose child was marked and whose sibling stays
\* marked
C4_Witness ==
  /\ last.op = "mark"
  /\ last.arg = FALSE
  /\ Len(last.path) = Len(dir) + 1
  /\ NodeOf(listing, last.path).children # <<>>
  /\ \E n \in Nodes(listing) : Len(n.name) = Len(dir) + 1 /\ n.is_marked

\* C5: delete_marked attempts the removal of every marked node below the
\* root that has no marked ancestor below the root, once each, whichever of
\* these removals fail; a failed removal is reported and nothing else, and
\* the call returns.
C5_DeleteAttemptsEveryTopMarked ==
  pc = "deleted" =>
    /\ delete_calls = 1
    /\ {a.path : a \in Range(attempted)} = {n.name : n \in TopMarked(listing)}
    /\ Len(attempted) = Cardinality(TopMarked(listing))
    /\ Range(reported) = {n.name : n \in TopMarked(listing)} \cap last.fail
    /\ Len(reported) = Cardinality(Range(reported))

\* the first removal failed and a later one removed its entry
C5_Witness ==
  /\ pc = "deleted"
  /\ Len(attempted) >= 2
  /\ reported = << attempted[1].path >>
  /\ ~Path_exists(files, attempted[2].path)

\* C8: the children of every directory of the tree inspect_dir returned are
\* sorted, directories before files and ascending by path within each group,
\* and mark and delete_marked change neither the order nor the membership of
\* any children sequence.
C8_ChildrenSortedAndKept ==
  [][pc' \in {"indexed", "deleted"} =>
       /\ \A n \in Nodes(listing') : SortedChildren(n.children)
       /\ pc # "main" => Skeleton(listing') = Skeleton(listing)]_vars

\* the listing named a file before a directory; both are children of the
\* root after marks and a delete_marked that removed something
C8_Witness ==
  /\ pc = "deleted"
  /\ attempted # <<>>
  /\ Len(disk.entries) = 2
  /\ disk.entries[1].kind = "file"
  /\ disk.entries[2].kind = "dir"
  /\ Len(listing.children) = 2
  /\ listing.children[1].is_directory

\* C9: in the key loop delete_marked is called, and the filesystem changed,
\* only by 'y' in AskRemove mode; AskRemove is entered only by Delete in
\* Normal mode; 'n' returns to Normal and leaves marks, cursor and
\* filesystem as they were; the call of delete_marked ends the loop, and
\* once the loop has ended no key is processed.
C9_DeleteOnlyOnConfirmedY ==
  [][/\ (files' # files \/ delete_calls' # delete_calls) =>
          (pc = "run" /\ mode = "AskRemove" /\ last'.op = "Char_y" /\ pc' = "exited")
     /\ (pc = "run" /\ mode = "AskRemove" /\ last'.op = "Char_y") =>
          (delete_calls' = delete_calls + 1 /\ pc' = "exited")
     /\ (mode' = "AskRemove" /\ mode # "AskRemove") =>
          (pc = "run" /\ mode = "Normal" /\ last'.op = "Delete")
     /\ (pc = "run" /\ mode = "AskRemove" /\ last'.op = "Char_n") =>
          /\ mode' = "Normal"
          /\ pc' = "run"
          /\ <<listing, current, selected, number_of_files, files>>'
               = <<listing, current, selected, number_of_files, files>>
     /\ pc \notin {"main", "run"} => UNCHANGED vars]_vars

\* 'y' in AskRemove removed marked entries and the loop has ended
C9_Witness ==
  /\ pc = "exited"
  /\ last.op = "Char_y"
  /\ delete_calls = 1
  /\ files # FilesOf(dir, disk)
  /\ \E n \in Nodes(listing) : ~n.is_marked /\ n.name # listing.name

\* C10 as claimed: while the loop runs, `current` is the path of a node of
\* the tree, number_of_files is the number of its children and `selected`
\* indexes one of them, so that no key fails on "Invalid path", on "Invalid
\* index" or on the subtraction in Down. (In a directory without children no
\* index is valid; there the formula asks only that no key fails.)
C10_KeysNeverFail ==
  /\ pc # "panicked"
  /\ pc = "run" =>
       /\ find_node(listing, current) # <<>>
       /\ number_of_files = Len(find_node(listing, current)[1].children)
       /\ number_of_files > 0 => selected < number_of_files

====
